---- MODULE Spec2Model ----
(***************************************************************************)
(* Shift-scheduling page of the clinic timetable (src/app/page.tsx).       *)
(*                                                                         *)
(* The state is the React state of the App component: the roster           *)
(* (employees), the schedule store (monthlySchedule), the displayed month  *)
(* (currentDate), the viewed branch (selectedBranch), the clinic-wide day  *)
(* off (clinicDayOff) and the modal.  Each action is one event handler.    *)
(* A handler is an operator that gives the state components it sets, so    *)
(* that a property of a handler can be stated over every state the page    *)
(* reaches and every argument the handler can be given.                    *)
(*                                                                         *)
(* The source's Thai string literals are written here in ASCII:            *)
(*   shift values  "morning" "afternoon" "day-off" "leave" "sick"          *)
(*                 "closed" ""  (BaseShiftString, page.tsx line 21)        *)
(*   pool sentinel "PartTime"   (page.tsx lines 16, 356, 409)              *)
(*   day names     "Sunday" .. "Saturday", "None" (page.tsx line 189)      *)
(*   branches      transliterated (page.tsx lines 152-156)                 *)
(*                                                                         *)
(* A ShiftEntry is either a string or a WorkingShiftObject.  A string s is *)
(* the record [str |-> s], an object the record [type |-> t, branch |-> b] *)
(* and a missing entry (undefined) the record [undefined |-> TRUE], so that*)
(* isWorkingShiftObject can inspect the shape of the value as the source's *)
(* type guard does.                                                        *)
(***************************************************************************)
EXTENDS Integers, Sequences, FiniteSets, TLC

VARIABLES employees, monthlySchedule, currentYear, currentMonth,
          selectedBranch, clinicDayOff, modal, loadPending

vars == <<employees, monthlySchedule, currentYear, currentMonth,
          selectedBranch, clinicDayOff, modal, loadPending>>

(***************************************************************************)
(* Bounds of the model.                                                    *)
(***************************************************************************)
\* number of branches of initialBranches that the model keeps
NumBranches == 2

\* the roster never grows beyond this many employees
MaxEmployees == 2

\* the schedule store never holds more than this many entries
MaxEntries == 2

\* the days 1..MaxDay of a month are the cells that are edited and read
MaxDay == 1

\* the displayed month stays within MonthSpan months after the first one
MonthSpan == 1

(***************************************************************************)
(* Program constants.                                                      *)
(***************************************************************************)
initialBranches ==
    <<"BuengThapChang", "BuaYai", "NonSung", "KhamSakaesaeng", "NongKhaiNam",
      "PhanomWan", "WangNamKhiao", "Kheha", "NonThai", "Chakkarat">>

\* the branches state: initialBranches, never changed (setBranches is unused)
branches == SubSeq(initialBranches, 1, NumBranches)

BranchSet == {branches[i] : i \in 1..Len(branches)}

dayNames ==
    <<"Sunday", "Monday", "Tuesday", "Wednesday", "Thursday", "Friday",
      "Saturday", "None">>

PartTimePool == "PartTime"

\* the month shown when the page is opened: new Date() on 2025-06 (0-indexed)
StartYear == 2025
StartMonth == 5

(***************************************************************************)
(* Input sets of the handlers.                                             *)
(***************************************************************************)
Days == 1..MaxDay

\* the values a shift cell can be set to
ShiftValues == {"", "morning", "afternoon", "day-off", "leave", "sick", "closed"}

WorkingValues == {"morning", "afternoon"}

\* the day names chosen in the clinic day off selector
DayOffChoices == {"Sunday", "None"}

EmployeeTypes == {"full-time", "part-time"}

\* texts typed into the add form
AddNames == {"", " ", "A"}
AddPositions == {"", "P"}

\* texts typed into the edit form
EditNames == {"A"}
EditPositions == {"P"}

(***************************************************************************)
(* Shift entries.                                                          *)
(***************************************************************************)
Undefined == [undefined |-> TRUE]

Str(s) == [str |-> s]

WorkingShiftObject(t, b) == [type |-> t, branch |-> b]

isString(shift) == DOMAIN shift = {"str"}

isWorkingShiftObject(shift) ==
    /\ shift # Undefined
    /\ "type" \in DOMAIN shift
    /\ "branch" \in DOMAIN shift

\* monthlySchedule[dateKey]?.[employeeId]
Lookup(schedule, dateKey, employeeId) ==
    IF dateKey \in DOMAIN schedule /\ employeeId \in DOMAIN schedule[dateKey]
    THEN schedule[dateKey][employeeId]
    ELSE Undefined

\* newSchedule[dateKey][employeeId] = entry, on a copy that has the date key
Put(schedule, dateKey, employeeId, entry) ==
    LET old == IF dateKey \in DOMAIN schedule THEN schedule[dateKey]
               ELSE [e \in {} |-> Undefined]
    IN  [k \in DOMAIN schedule \cup {dateKey} |->
            IF k = dateKey
            THEN [e \in DOMAIN old \cup {employeeId} |->
                     IF e = employeeId THEN entry ELSE old[e]]
            ELSE schedule[k]]

EntryCount(schedule) ==
    Cardinality({<<k, e>> \in UNION {{k} \X DOMAIN schedule[k] : k \in DOMAIN schedule} : TRUE})

(***************************************************************************)
(* Dates.                                                                  *)
(***************************************************************************)
\* String(n).padStart(2, '0')
padStart2(n) == IF n < 10 THEN "0" \o ToString(n) ELSE ToString(n)

\* `${year}-${month + 1 padded}-${day padded}`, month 0-indexed
dateKeyOf(year, month, day) ==
    ToString(year) \o "-" \o padStart2(month + 1) \o "-" \o padStart2(day)

\* days from 1970-01-01 to the civil date year-m-day, m in 1..12
DaysFromCivil(year, m, day) ==
    LET y   == IF m <= 2 THEN year - 1 ELSE year
        era == y \div 400
        yoe == y - era * 400
        mp  == IF m > 2 THEN m - 3 ELSE m + 9
        doy == (153 * mp + 2) \div 5 + day - 1
        doe == yoe * 365 + yoe \div 4 - yoe \div 100 + doy
    IN  era * 146097 + doe - 719468

\* new Date(year, month, day).getDay(): 0 is Sunday; month 0-indexed
getDay(year, month, day) == (DaysFromCivil(year, month + 1, day) + 4) % 7

\* dayNames[dayOfWeek] === clinicDayOff && clinicDayOff !== 'None'
isClinicDayOffCellAt(dayOff, year, month, day) ==
    /\ dayNames[getDay(year, month, day) + 1] = dayOff
    /\ dayOff # "None"

isClinicDayOffCell(day) ==
    isClinicDayOffCellAt(clinicDayOff, currentYear, currentMonth, day)

dateKey(day) == dateKeyOf(currentYear, currentMonth, day)

(***************************************************************************)
(* Roster helpers.                                                         *)
(***************************************************************************)
\* employees.find(e => e.id === employeeId)
find(emps, employeeId) ==
    IF \E i \in 1..Len(emps) : emps[i].id = employeeId
    THEN emps[CHOOSE i \in 1..Len(emps) :
                 /\ emps[i].id = employeeId
                 /\ \A j \in 1..(i - 1) : emps[j].id # employeeId]
    ELSE Undefined

RosterIds == {employees[i].id : i \in 1..Len(employees)}

(***************************************************************************)
(* The modal.  A closed modal renders nothing and none of its fields is    *)
(* read, so every closed modal is the one value ClosedModal.  An open      *)
(* modal is drawn as an overlay over the whole page (lines 60-63: fixed    *)
(* inset-0, z-50), so while it is open only its own buttons are pressed:   *)
(* the other handlers are taken with the modal closed (PageIsFree).        *)
(***************************************************************************)
ClosedModal ==
    [isOpen |-> FALSE, title |-> "", message |-> <<>>, showCancel |-> FALSE,
     onConfirm |-> [act |-> "close"]]

AlertModal(title, message) ==
    [isOpen |-> TRUE, title |-> title, message |-> message,
     showCancel |-> FALSE, onConfirm |-> [act |-> "close"]]

PageIsFree == ~modal.isOpen

\* the state the useState calls of lines 162-191 give, with the load started by
\* the effect of lines 193-218 not yet resolved
Init ==
    /\ employees = <<>>
    /\ monthlySchedule = [k \in {} |-> Undefined]
    /\ currentYear = StartYear
    /\ currentMonth = StartMonth
    /\ selectedBranch = initialBranches[1]
    /\ clinicDayOff = "Sunday"
    /\ modal = ClosedModal
    /\ loadPending = TRUE

(***************************************************************************)
(* handleShiftChange (lines 232-306).  The result is the value the updater *)
(* returns for monthlySchedule and the modal after the call.               *)
(***************************************************************************)
ClinicClosedModal(dayName) ==
    AlertModal("clinic day off", <<"clinic closed on", dayName>>)

PartTimeConflictModal(otherBranch, viewed) ==
    AlertModal("part-time restriction",
               <<"already working in", otherBranch, "cannot work in", viewed>>)

\* clinicDayOffChange returning the copy (newSchedule, which has the date key)
\* instead of prevSchedule when it rejects
clinicDayOffChangeReturnsCopy(schedule, shown, key, employeeId, value, dayName) ==
    IF value # "closed"
    THEN [monthlySchedule |->
              [k \in DOMAIN schedule \cup {key} |->
                  IF k \in DOMAIN schedule THEN schedule[k]
                  ELSE [e \in {} |-> Undefined]],
          modal |-> ClinicClosedModal(dayName)]
    ELSE [monthlySchedule |-> Put(schedule, key, employeeId, Str("closed")),
          modal |-> shown]

\* lines 247-262: the cell is on the clinic day off
clinicDayOffChange(schedule, shown, key, employeeId, value, dayName) ==
    IF value # "closed"
    THEN [monthlySchedule |-> schedule, modal |-> ClinicClosedModal(dayName)]
    ELSE [monthlySchedule |-> Put(schedule, key, employeeId, Str("closed")),
          modal |-> shown]

\* isWorkingElsewhere with the scan left out: no assignment is ever found
isWorkingElsewhereNoScan(schedule, key, employeeId, viewed) == FALSE

\* the scan of lines 269-289: every branch other than the viewed one reads the
\* entry stored for the employee on the date
isWorkingElsewhere(schedule, key, employeeId, viewed) ==
    \E i \in 1..Len(branches) :
        /\ branches[i] # viewed
        /\ isWorkingShiftObject(Lookup(schedule, key, employeeId))

\* partTimeChange in which a non-working value does not replace a working
\* assignment
partTimeChangeKeepsAssignment(schedule, shown, key, employeeId, value, viewed) ==
    IF value \in WorkingValues
    THEN IF isWorkingElsewhere(schedule, key, employeeId, viewed)
         THEN [monthlySchedule |-> schedule,
               modal |-> PartTimeConflictModal(
                             Lookup(schedule, key, employeeId).branch, viewed)]
         ELSE [monthlySchedule |->
                   Put(schedule, key, employeeId, WorkingShiftObject(value, viewed)),
               modal |-> shown]
    ELSE IF isWorkingShiftObject(Lookup(schedule, key, employeeId))
    THEN [monthlySchedule |-> schedule, modal |-> shown]
    ELSE [monthlySchedule |-> Put(schedule, key, employeeId, Str(value)),
          modal |-> shown]

\* lines 265-299: a part-time employee on a day the clinic is open
partTimeChange(schedule, shown, key, employeeId, value, viewed) ==
    IF value \in WorkingValues
    THEN IF isWorkingElsewhere(schedule, key, employeeId, viewed)
         THEN [monthlySchedule |-> schedule,
               modal |-> PartTimeConflictModal(
                             Lookup(schedule, key, employeeId).branch, viewed)]
         ELSE [monthlySchedule |->
                   Put(schedule, key, employeeId, WorkingShiftObject(value, viewed)),
               modal |-> shown]
    ELSE [monthlySchedule |-> Put(schedule, key, employeeId, Str(value)),
          modal |-> shown]

\* fullTimeChange storing nothing for the empty value
fullTimeChangeSkipsEmpty(schedule, shown, key, employeeId, value) ==
    IF value = ""
    THEN [monthlySchedule |-> schedule, modal |-> shown]
    ELSE [monthlySchedule |-> Put(schedule, key, employeeId, Str(value)),
          modal |-> shown]

\* lines 300-302: a full-time employee on a day the clinic is open
fullTimeChange(schedule, shown, key, employeeId, value) ==
    [monthlySchedule |-> Put(schedule, key, employeeId, Str(value)),
     modal |-> shown]

\* handleShiftChange testing the employee's type before the clinic day off
handleShiftChangeTypeFirst(employeeId, day, value) ==
    LET employee == find(employees, employeeId)
        key      == dateKey(day)
        dayName  == dayNames[getDay(currentYear, currentMonth, day) + 1]
    IN  IF employee = Undefined
        THEN [monthlySchedule |-> monthlySchedule, modal |-> modal]
        ELSE IF employee.type = "part-time" /\ value \in WorkingValues
        THEN partTimeChange(monthlySchedule, modal, key, employeeId, value,
                            selectedBranch)
        ELSE IF isClinicDayOffCell(day)
        THEN clinicDayOffChange(monthlySchedule, modal, key, employeeId, value,
                                dayName)
        ELSE IF employee.type = "part-time"
        THEN partTimeChange(monthlySchedule, modal, key, employeeId, value,
                            selectedBranch)
        ELSE fullTimeChange(monthlySchedule, modal, key, employeeId, value)

handleShiftChange(employeeId, day, value) ==
    LET employee == find(employees, employeeId)
        key      == dateKey(day)
        dayName  == dayNames[getDay(currentYear, currentMonth, day) + 1]
    IN  IF employee = Undefined
        THEN [monthlySchedule |-> monthlySchedule, modal |-> modal]
        ELSE IF isClinicDayOffCell(day)
        THEN clinicDayOffChange(monthlySchedule, modal, key, employeeId, value,
                                dayName)
        ELSE IF employee.type = "part-time"
        THEN partTimeChange(monthlySchedule, modal, key, employeeId, value,
                            selectedBranch)
        ELSE fullTimeChange(monthlySchedule, modal, key, employeeId, value)

\* a call of handleShiftChange.  The table (lines 749-778) calls it for the
\* displayed employees on the cells of open days with the values of its
\* options; the handler is taken over all of its arguments, an employee of the
\* roster, a day and a BaseShiftString, which is what its gates are written for.
ShiftChange ==
    /\ PageIsFree
    /\ \E employeeId \in RosterIds, day \in Days, value \in ShiftValues :
        /\ \/ Lookup(monthlySchedule, dateKey(day), employeeId) # Undefined
           \/ EntryCount(monthlySchedule) < MaxEntries
        /\ LET result == handleShiftChange(employeeId, day, value)
           IN  /\ monthlySchedule' = result.monthlySchedule
               /\ modal' = result.modal
        /\ UNCHANGED <<employees, currentYear, currentMonth, selectedBranch,
                       clinicDayOff, loadPending>>

(***************************************************************************)
(* getShiftValue (lines 310-339).                                          *)
(***************************************************************************)
\* getShiftValue without the clinic day off test of lines 318-320
getShiftValueAtNoDayOff(emps, schedule, dayOff, year, month, viewed, employeeId, day) ==
    LET employee   == find(emps, employeeId)
        shiftEntry == Lookup(schedule, dateKeyOf(year, month, day), employeeId)
    IN  IF employee = Undefined THEN ""
        ELSE IF employee.type = "full-time"
        THEN IF isString(shiftEntry) THEN shiftEntry.str ELSE ""
        ELSE IF isWorkingShiftObject(shiftEntry)
        THEN IF shiftEntry.branch = viewed THEN shiftEntry.type ELSE ""
        ELSE IF isString(shiftEntry) THEN shiftEntry.str ELSE ""

\* getShiftValue without the branch test of line 329
getShiftValueAtAnyBranch(emps, schedule, dayOff, year, month, viewed, employeeId, day) ==
    LET employee   == find(emps, employeeId)
        shiftEntry == Lookup(schedule, dateKeyOf(year, month, day), employeeId)
    IN  IF employee = Undefined THEN ""
        ELSE IF isClinicDayOffCellAt(dayOff, year, month, day) THEN "closed"
        ELSE IF employee.type = "full-time"
        THEN IF isString(shiftEntry) THEN shiftEntry.str ELSE ""
        ELSE IF isWorkingShiftObject(shiftEntry)
        THEN shiftEntry.type
        ELSE IF isString(shiftEntry) THEN shiftEntry.str ELSE ""

getShiftValueAt(emps, schedule, dayOff, year, month, viewed, employeeId, day) ==
    LET employee   == find(emps, employeeId)
        shiftEntry == Lookup(schedule, dateKeyOf(year, month, day), employeeId)
    IN  IF employee = Undefined THEN ""
        ELSE IF isClinicDayOffCellAt(dayOff, year, month, day) THEN "closed"
        ELSE IF employee.type = "full-time"
        THEN IF isString(shiftEntry) THEN shiftEntry.str ELSE ""
        ELSE IF isWorkingShiftObject(shiftEntry)
        THEN IF shiftEntry.branch = viewed THEN shiftEntry.type ELSE ""
        ELSE IF isString(shiftEntry) THEN shiftEntry.str ELSE ""

getShiftValue(employeeId, day) ==
    getShiftValueAt(employees, monthlySchedule, clinicDayOff, currentYear,
                    currentMonth, selectedBranch, employeeId, day)

(***************************************************************************)
(* The view: displayedEmployees (lines 428-430) and getDailyStaffCount     *)
(* (lines 433-463).                                                        *)
(***************************************************************************)
\* the filter keeping the employees of the viewed branch whatever their type
displayedEmployeesAtByBranch(emps, viewed) ==
    LET F[i \in 0..Len(emps)] ==
            IF i = 0 THEN <<>>
            ELSE IF emps[i].branch = viewed
                 THEN Append(F[i - 1], emps[i]) ELSE F[i - 1]
    IN  F[Len(emps)]

\* employees.filter(e => e.type === 'part-time' || e.branch === selectedBranch)
displayedEmployeesAt(emps, viewed) ==
    LET F[i \in 0..Len(emps)] ==
            IF i = 0 THEN <<>>
            ELSE IF emps[i].type = "part-time" \/ emps[i].branch = viewed
                 THEN Append(F[i - 1], emps[i]) ELSE F[i - 1]
    IN  F[Len(emps)]

displayedEmployees == displayedEmployeesAt(employees, selectedBranch)

\* the body of the forEach of lines 437-461: whether the employee adds one to
\* the count
isCounted(employee, schedule, dayOff, year, month, viewed, day) ==
    LET shiftEntry == Lookup(schedule, dateKeyOf(year, month, day), employee.id)
    IN  IF isClinicDayOffCellAt(dayOff, year, month, day) THEN FALSE
        ELSE IF employee.type = "full-time"
        THEN /\ employee.branch = viewed
             /\ isString(shiftEntry)
             /\ shiftEntry.str \in {"morning", "afternoon"}
        ELSE /\ isWorkingShiftObject(shiftEntry)
             /\ shiftEntry.branch = viewed
             /\ shiftEntry.type \in {"morning", "afternoon"}

\* getDailyStaffCount counting a full-time employee in every branch
getDailyStaffCountAtAnyBranch(emps, schedule, dayOff, year, month, viewed, day) ==
    LET F[i \in 0..Len(emps)] ==
            IF i = 0 THEN 0
            ELSE F[i - 1] +
                 (IF isCounted([emps[i] EXCEPT !.branch =
                                   IF emps[i].type = "full-time" THEN viewed
                                   ELSE emps[i].branch],
                               schedule, dayOff, year, month, viewed, day)
                  THEN 1 ELSE 0)
    IN  F[Len(emps)]

\* getDailyStaffCount without the clinic day off test of lines 440-444
getDailyStaffCountAtNoDayOff(emps, schedule, dayOff, year, month, viewed, day) ==
    LET F[i \in 0..Len(emps)] ==
            IF i = 0 THEN 0
            ELSE F[i - 1] +
                 (IF isCounted(emps[i], schedule, "None", year, month, viewed, day)
                  THEN 1 ELSE 0)
    IN  F[Len(emps)]

getDailyStaffCountAt(emps, schedule, dayOff, year, month, viewed, day) ==
    LET F[i \in 0..Len(emps)] ==
            IF i = 0 THEN 0
            ELSE F[i - 1] +
                 (IF isCounted(emps[i], schedule, dayOff, year, month, viewed, day)
                  THEN 1 ELSE 0)
    IN  F[Len(emps)]

getDailyStaffCount(day) ==
    getDailyStaffCountAt(employees, monthlySchedule, clinicDayOff, currentYear,
                         currentMonth, selectedBranch, day)

(***************************************************************************)
(* Roster: handleAddEmployee (351-368), handleDeleteEmployee (370-395),    *)
(* startEditEmployee, handleEditEmployeeChange, saveEditEmployee (397-412).*)
(***************************************************************************)
\* String.prototype.trim on the texts the forms are given
trim(s) == IF s = " " THEN "" ELSE s

\* the drafts the add form can hold: the branch selector is shown for
\* full-time only, and choosing a type resets the branch (lines 508-527)
NewEmployeeDrafts ==
    {d \in [name : AddNames, position : AddPositions,
            branch : BranchSet \cup {"", PartTimePool}, type : EmployeeTypes] :
        IF d.type = "part-time" THEN d.branch = PartTimePool
        ELSE d.branch # PartTimePool}

\* the count taken over the whole roster instead of the employees of the type
SameTypeCountAll(emps, type) == Len(emps)

\* employees.filter(e => e.type === newEmployee.type).length
SameTypeCount(emps, type) ==
    Cardinality({i \in 1..Len(emps) : emps[i].type = type})

IncompleteModal ==
    AlertModal("incomplete data", <<"fill in name, position and branch">>)

\* handleAddEmployee testing the texts as typed, without trim
handleAddEmployeeNoTrim(newEmployee) ==
    IF /\ newEmployee.name # ""
       /\ newEmployee.position # ""
       /\ (newEmployee.type = "part-time" \/ newEmployee.branch # "")
    THEN LET idPrefix == IF newEmployee.type = "full-time" THEN "emp" ELSE "pte"
             newId == idPrefix \o
                      ToString(SameTypeCount(employees, newEmployee.type) + 1)
         IN  [employees |-> Append(employees,
                  [id |-> newId, name |-> newEmployee.name,
                   position |-> newEmployee.position,
                   branch |-> IF newEmployee.type = "part-time"
                              THEN PartTimePool ELSE newEmployee.branch,
                   type |-> newEmployee.type]),
              modal |-> modal]
    ELSE [employees |-> employees, modal |-> IncompleteModal]

\* lines 351-368; the result is the roster and the modal after the call (the
\* handler sets nothing else of the state read by the table)
handleAddEmployee(newEmployee) ==
    IF /\ trim(newEmployee.name) # ""
       /\ trim(newEmployee.position) # ""
       /\ (newEmployee.type = "part-time" \/ trim(newEmployee.branch) # "")
    THEN LET idPrefix == IF newEmployee.type = "full-time" THEN "emp" ELSE "pte"
             newId == idPrefix \o
                      ToString(SameTypeCount(employees, newEmployee.type) + 1)
         IN  [employees |-> Append(employees,
                  [id |-> newId, name |-> newEmployee.name,
                   position |-> newEmployee.position,
                   branch |-> IF newEmployee.type = "part-time"
                              THEN PartTimePool ELSE newEmployee.branch,
                   type |-> newEmployee.type]),
              modal |-> modal]
    ELSE [employees |-> employees, modal |-> IncompleteModal]

AddEmployee ==
    /\ PageIsFree
    /\ \E newEmployee \in NewEmployeeDrafts :
        /\ Len(employees) < MaxEmployees
        /\ LET result == handleAddEmployee(newEmployee)
           IN  /\ employees' = result.employees
               /\ modal' = result.modal
        /\ UNCHANGED <<monthlySchedule, currentYear, currentMonth,
                       selectedBranch, clinicDayOff, loadPending>>

\* the values editedEmployee can hold when the save button is pressed:
\* startEditEmployee copies the employee, handleEditEmployeeChange sets one
\* field at a time; the branch selector (shown while the type is full-time)
\* offers the branches only
EditedEmployees(employee) ==
    {[id |-> employee.id, name |-> n, position |-> p, branch |-> b, type |-> t] :
        n \in EditNames \cup {employee.name},
        p \in EditPositions \cup {employee.position},
        b \in BranchSet \cup {employee.branch},
        t \in EmployeeTypes}

\* saveEditEmployee keeping the edited branch whatever the type
saveEditEmployeeKeepsBranch(editingEmployeeId, editedEmployee) ==
    [i \in 1..Len(employees) |->
        IF employees[i].id = editingEmployeeId THEN editedEmployee
        ELSE employees[i]]

\* lines 407-412: the roster given to setEmployees
saveEditEmployee(editingEmployeeId, editedEmployee) ==
    [i \in 1..Len(employees) |->
        IF employees[i].id = editingEmployeeId
        THEN [editedEmployee EXCEPT
                !.branch = IF editedEmployee.type = "part-time"
                           THEN PartTimePool ELSE editedEmployee.branch]
        ELSE employees[i]]

EditEmployee ==
    /\ PageIsFree
    /\ \E i \in 1..Len(employees) :
        \E editedEmployee \in EditedEmployees(employees[i]) :
            /\ employees' = saveEditEmployee(employees[i].id, editedEmployee)
            /\ UNCHANGED <<monthlySchedule, currentYear, currentMonth,
                           selectedBranch, clinicDayOff, modal, loadPending>>

\* the updater without the removal of a date left empty (lines 384-386)
deleteFromScheduleKeepsDates(schedule, id) ==
    [k \in DOMAIN schedule |-> [e \in DOMAIN schedule[k] \ {id} |-> schedule[k][e]]]

\* the updater of lines 379-390
deleteFromSchedule(schedule, id) ==
    LET kept == {k \in DOMAIN schedule : DOMAIN schedule[k] \ {id} # {}}
    IN  [k \in kept |-> [e \in DOMAIN schedule[k] \ {id} |-> schedule[k][e]]]

\* employees.filter(emp => emp.id !== id)
withoutId(emps, id) ==
    LET F[i \in 0..Len(emps)] ==
            IF i = 0 THEN <<>>
            ELSE IF emps[i].id # id THEN Append(F[i - 1], emps[i]) ELSE F[i - 1]
    IN  F[Len(emps)]

\* the modal opened by handleDeleteEmployee (lines 370-395); onConfirm closes
\* over the id and over the employees of the render that opened it
handleDeleteEmployee(id) ==
    [isOpen |-> TRUE, title |-> "confirm delete",
     message |-> <<"delete this employee?">>, showCancel |-> TRUE,
     onConfirm |-> [act |-> "delete", id |-> id, employees |-> employees]]

DeleteEmployee ==
    /\ PageIsFree
    /\ \E id \in RosterIds :
        /\ modal' = handleDeleteEmployee(id)
        /\ UNCHANGED <<employees, monthlySchedule, currentYear, currentMonth,
                       selectedBranch, clinicDayOff, loadPending>>

\* onConfirm of the delete modal (lines 376-392)
confirmDelete(onConfirm) ==
    [employees |-> withoutId(onConfirm.employees, onConfirm.id),
     monthlySchedule |-> deleteFromSchedule(monthlySchedule, onConfirm.id)]

DeletePending == modal.isOpen /\ modal.onConfirm.act = "delete"

\* the modal's confirm button (lines 76-81) runs modal.onConfirm
ModalConfirm ==
    /\ modal.isOpen
    /\ IF modal.onConfirm.act = "delete"
       THEN LET result == confirmDelete(modal.onConfirm)
            IN  /\ employees' = result.employees
                /\ monthlySchedule' = result.monthlySchedule
       ELSE UNCHANGED <<employees, monthlySchedule>>
    /\ modal' = ClosedModal
    /\ UNCHANGED <<currentYear, currentMonth, selectedBranch, clinicDayOff, loadPending>>

\* a cancel button that runs the delete the prompt asks about
ModalCancelDeletes ==
    /\ modal.isOpen
    /\ modal.showCancel
    /\ employees' = withoutId(modal.onConfirm.employees, modal.onConfirm.id)
    /\ monthlySchedule' = deleteFromSchedule(monthlySchedule, modal.onConfirm.id)
    /\ modal' = ClosedModal
    /\ UNCHANGED <<currentYear, currentMonth, selectedBranch, clinicDayOff, loadPending>>

\* the modal's cancel button (lines 68-75), shown when showCancel; onCancel of
\* the delete modal (line 393) closes the modal
ModalCancel ==
    /\ modal.isOpen
    /\ modal.showCancel
    /\ modal' = ClosedModal
    /\ UNCHANGED <<employees, monthlySchedule, currentYear, currentMonth,
                   selectedBranch, clinicDayOff, loadPending>>

(***************************************************************************)
(* Selections: changeMonth (343-348), the branch selector (670-679) and    *)
(* the clinic day off selector (685-694).                                  *)
(***************************************************************************)
MonthIndex(year, month) == (year - StartYear) * 12 + month - StartMonth

\* new Date(prevDate.getFullYear(), prevDate.getMonth() + direction, 1)
changeMonth(direction) ==
    LET total == currentYear * 12 + currentMonth + direction
    IN  [year |-> total \div 12, month |-> total % 12]

ChangeMonth ==
    /\ PageIsFree
    /\ \E direction \in {-1, 1} :
        /\ MonthIndex(currentYear, currentMonth) + direction \in 0..MonthSpan
        /\ currentYear' = changeMonth(direction).year
        /\ currentMonth' = changeMonth(direction).month
        /\ UNCHANGED <<employees, monthlySchedule, selectedBranch,
                       clinicDayOff, modal, loadPending>>

SelectBranch ==
    /\ PageIsFree
    /\ \E branch \in BranchSet :
        /\ selectedBranch' = branch
        /\ UNCHANGED <<employees, monthlySchedule, currentYear, currentMonth,
                       clinicDayOff, modal, loadPending>>

\* the day off selector that also drops what is stored on the displayed
\* month's days of the chosen weekday
SelectClinicDayOffAmongClearing(choices) ==
    /\ PageIsFree
    /\ \E day \in choices :
        /\ clinicDayOff' = day
        /\ monthlySchedule' =
              [key \in {k \in DOMAIN monthlySchedule :
                           \A d \in Days :
                              k = dateKey(d)
                                => ~isClinicDayOffCellAt(day, currentYear,
                                                         currentMonth, d)}
                 |-> monthlySchedule[key]]
        /\ UNCHANGED <<employees, currentYear, currentMonth,
                       selectedBranch, modal, loadPending>>

\* onChange of the day off selector (line 688) with one of the given options
SelectClinicDayOffAmong(choices) ==
    /\ PageIsFree
    /\ \E day \in choices :
        /\ clinicDayOff' = day
        /\ UNCHANGED <<employees, monthlySchedule, currentYear, currentMonth,
                       selectedBranch, modal, loadPending>>

SelectClinicDayOff == SelectClinicDayOffAmong(DayOffChoices)

\* the selector with two weekdays among its options: day 1 of the first
\* month is a Sunday, day 1 of the next month a Tuesday
WeekdayChoices == {"Sunday", "Tuesday", "None"}

SelectWeekdayOff == SelectClinicDayOffAmong(WeekdayChoices)

(***************************************************************************)
(* The startup load (lines 193-218).  The effect runs once when the page   *)
(* is mounted; getDocs resolves later, at any moment, whatever the page    *)
(* shows then.  A document is a record that has or lacks the fields        *)
(* employees, schedule and date.  Its schedule is the list Object.entries  *)
(* gives: pairs of an employee id and the list of that employee's pairs of *)
(* a day and a shift.                                                      *)
(***************************************************************************)
LoadedFullTime ==
    [id |-> "emp1", name |-> "L", position |-> "P",
     branch |-> initialBranches[1], type |-> "full-time"]

LoadedPartTime ==
    [id |-> "pte1", name |-> "L", position |-> "P",
     branch |-> PartTimePool, type |-> "part-time"]

\* the employees field of the documents
DocRosters == {<<>>, <<LoadedFullTime>>, <<LoadedFullTime, LoadedPartTime>>}

\* the schedule field of the documents, its days keyed as the store's dates
\* are: none, one employee with two days, a part-time employee with an
\* assignment and an id that no roster has
DocSchedules ==
    {<<>>,
     << <<"emp1", << <<"2025-06-01", Str("morning")>>,
                     <<"2025-06-02", Str("leave")>> >> >> >>,
     << <<"pte1", << <<"2025-06-01",
                       WorkingShiftObject("morning", initialBranches[1])>> >> >>,
        <<"emp9", << <<"2025-06-01", Str("sick")>> >> >> >>}

\* the date field of the documents
DocDates == {"2025-06-01"}

Documents ==
    {[employees |-> r, schedule |-> sch, date |-> d] :
        r \in DocRosters, sch \in DocSchedules, d \in DocDates}
    \cup {[schedule |-> sch, date |-> d] : sch \in DocSchedules, d \in DocDates}
    \cup {[employees |-> r, date |-> d] : r \in DocRosters, d \in DocDates}
    \cup {[employees |-> r, schedule |-> sch] :
             r \in DocRosters, sch \in DocSchedules}

\* querySnapshot.docs.map(doc => doc.data()): no document, one, or two
QuerySnapshots ==
    {<<>>} \cup {<<latest>> : latest \in Documents}
           \cup {<<latest, [employees |-> <<LoadedPartTime>>]>> :
                    latest \in Documents}

\* `${latest.date}` as a key of scheduleMap
dateOf(latest) ==
    IF "date" \in DOMAIN latest THEN latest.date ELSE "undefined"

\* scheduleMapInto creating the document's date key before it reads the
\* entries
scheduleMapIntoDateFirst(start, latest) ==
    [k \in DOMAIN start \cup {dateOf(latest)} |->
        IF k \in DOMAIN start THEN start[k] ELSE [e \in {} |-> Undefined]]

\* lines 204-210 run on the map start: every shift of every employee of the
\* document is written under the document's date
scheduleMapInto(start, latest) ==
    LET entries == IF "schedule" \in DOMAIN latest THEN latest.schedule ELSE <<>>
        daysInto(map, empId, days) ==
            LET D[k \in 0..Len(days)] ==
                    IF k = 0 THEN map
                    ELSE Put(D[k - 1], dateOf(latest), empId, days[k][2])
            IN  D[Len(days)]
        E[k \in 0..Len(entries)] ==
            IF k = 0 THEN start
            ELSE daysInto(E[k - 1], entries[k][1], entries[k][2])
    IN  E[Len(entries)]

\* the load adding the document to the state it finds
loadScheduleFromFirestoreMerges(emps, schedule, schedules) ==
    IF Len(schedules) > 0
    THEN LET latest == schedules[1]
         IN  [employees |-> emps \o (IF "employees" \in DOMAIN latest
                                     THEN latest.employees ELSE <<>>),
              monthlySchedule |-> scheduleMapInto(schedule, latest)]
    ELSE [employees |-> emps, monthlySchedule |-> schedule]

\* lines 198-214: the roster and the schedule store after getDocs has resolved
\* with the documents schedules, when they were emps and schedule before
loadScheduleFromFirestore(emps, schedule, schedules) ==
    IF Len(schedules) > 0
    THEN LET latest == schedules[1]
         IN  [employees |-> IF "employees" \in DOMAIN latest
                            THEN latest.employees ELSE <<>>,
              monthlySchedule |->
                  scheduleMapInto([k \in {} |-> Undefined], latest)]
    ELSE [employees |-> emps, monthlySchedule |-> schedule]

\* getDocs resolving with one of the given snapshots
LoadAmong(snapshots) ==
    /\ loadPending
    /\ \E schedules \in snapshots :
        LET result == loadScheduleFromFirestore(employees, monthlySchedule,
                                                schedules)
        IN  /\ employees' = result.employees
            /\ monthlySchedule' = result.monthlySchedule
    /\ loadPending' = FALSE
    /\ UNCHANGED <<currentYear, currentMonth, selectedBranch, clinicDayOff,
                   modal>>

Load == LoadAmong(QuerySnapshots)

\* a document whose schedule names only employees of its own employees field
SelfConsistent(latest) ==
    LET entries == IF "schedule" \in DOMAIN latest THEN latest.schedule ELSE <<>>
        listed  == IF "employees" \in DOMAIN latest
                   THEN latest.employees ELSE <<>>
    IN  \A k \in 1..Len(entries) :
            \E i \in 1..Len(listed) : listed[i].id = entries[k][1]

SelfConsistentSnapshots ==
    {schedules \in QuerySnapshots :
        Len(schedules) > 0 => SelfConsistent(schedules[1])}

\* the load when the collection was written by this page's own roster and
\* schedule
LoadSelfConsistent == LoadAmong(SelfConsistentSnapshots)

(***************************************************************************)
(* The page with the displayed month left as it is when the page opens.    *)
(***************************************************************************)
Next ==
    \/ ShiftChange
    \/ AddEmployee
    \/ EditEmployee
    \/ DeleteEmployee
    \/ ModalConfirm
    \/ ModalCancel
    \/ SelectBranch
    \/ SelectClinicDayOff

Spec == Init /\ [][Next]_vars

(***************************************************************************)
(* The page with the startup load resolving at any moment, among the       *)
(* handlers that add and delete employees and edit shifts.                 *)
(***************************************************************************)
NextLoad ==
    \/ Load
    \/ ShiftChange
    \/ AddEmployee
    \/ DeleteEmployee
    \/ ModalConfirm
    \/ ModalCancel
    \/ SelectClinicDayOff

SpecLoad == Init /\ [][NextLoad]_vars

(***************************************************************************)
(* The page of SpecLoad when the document loaded is self-consistent.       *)
(***************************************************************************)
NextLoadSelfConsistent ==
    \/ LoadSelfConsistent
    \/ ShiftChange
    \/ AddEmployee
    \/ DeleteEmployee
    \/ ModalConfirm
    \/ ModalCancel
    \/ SelectClinicDayOff

SpecLoadSelfConsistent == Init /\ [][NextLoadSelfConsistent]_vars

(***************************************************************************)
(* The page with its three selectors (viewed branch, displayed month,      *)
(* clinic day off among two weekdays and none) and the handlers that add   *)
(* employees and edit shifts.                                              *)
(***************************************************************************)
NextSelections ==
    \/ AddEmployee
    \/ ShiftChange
    \/ ModalConfirm
    \/ SelectBranch
    \/ ChangeMonth
    \/ SelectWeekdayOff

SpecSelections == Init /\ [][NextSelections]_vars

(***************************************************************************)
(* The page used for adding and editing employees only: no delete, no      *)
(* shift edit.  The confirm button closes the incomplete data prompt.      *)
(***************************************************************************)
NextAddEdit ==
    \/ AddEmployee
    \/ EditEmployee
    \/ ModalConfirm

SpecAddEdit == Init /\ [][NextAddEdit]_vars

(***************************************************************************)
(* Properties.  In each of them the employee an id stands for is the one   *)
(* the handlers resolve it to, find(employees, id).                        *)
(***************************************************************************)
PartTimeIds == {id \in RosterIds : find(employees, id).type = "part-time"}

StoredEntry(id, day) == Lookup(monthlySchedule, dateKey(day), id)

\* the non-working values of a cell
NonWorkingValues == {"day-off", "leave", "sick", ""}

\* C2: on a day the clinic is open, setting a part-time employee to morning or
\* afternoon while viewing branch B, when the stored entry is a working
\* assignment in a branch other than B, leaves the schedule store as it was and
\* opens the part-time restriction prompt, whose message names the branch that
\* holds the assignment.
C2_ConflictRejected ==
    \A id \in PartTimeIds, day \in Days, value \in WorkingValues :
        LET entry  == StoredEntry(id, day)
            result == handleShiftChange(id, day, value)
        IN  (/\ ~isClinicDayOffCell(day)
             /\ isWorkingShiftObject(entry)
             /\ entry.branch # selectedBranch)
            => /\ result.monthlySchedule = monthlySchedule
               /\ result.modal.isOpen
               /\ result.modal.title = "part-time restriction"
               /\ result.modal.message[2] = entry.branch

\* C2 witness: the restriction prompt is open, it names a branch other than the
\* viewed one, and that branch still holds the employee's working assignment.
C2_Witness ==
    /\ modal.isOpen
    /\ modal.title = "part-time restriction"
    /\ modal.message[2] # selectedBranch
    /\ \E id \in PartTimeIds, day \in Days :
          /\ ~isClinicDayOffCell(day)
          /\ isWorkingShiftObject(StoredEntry(id, day))
          /\ StoredEntry(id, day).branch = modal.message[2]

\* C3 as claimed: on a day the clinic is open, setting a part-time employee to
\* morning or afternoon while viewing branch B is accepted and stores
\* {state: value, branch: B} whenever no branch other than B holds a working
\* assignment for the employee on the date, also when B itself holds one.
C3_AcceptedUnlessElsewhere ==
    \A id \in PartTimeIds, day \in Days, value \in WorkingValues :
        LET entry  == StoredEntry(id, day)
            result == handleShiftChange(id, day, value)
        IN  (/\ ~isClinicDayOffCell(day)
             /\ ~(isWorkingShiftObject(entry) /\ entry.branch # selectedBranch))
            => /\ result.modal = modal
               /\ Lookup(result.monthlySchedule, dateKey(day), id)
                    = WorkingShiftObject(value, selectedBranch)

\* C4: on a date whose weekday is the configured clinic day off, getShiftValue
\* gives "closed" for every employee of the roster and every viewed branch,
\* whatever is stored for the employee and the date.
C4_ClosedOverridesStored ==
    \A i \in 1..Len(employees), day \in Days, viewed \in BranchSet :
        isClinicDayOffCell(day)
        => getShiftValueAt(employees, monthlySchedule, clinicDayOff, currentYear,
                           currentMonth, viewed, employees[i].id, day) = "closed"

\* C4 witness: the clinic is closed on a day for which an employee has a working
\* assignment stored in the viewed branch.
C4_Witness ==
    \E id \in RosterIds, day \in Days :
        /\ isClinicDayOffCell(day)
        /\ isWorkingShiftObject(StoredEntry(id, day))
        /\ StoredEntry(id, day).branch = selectedBranch
        /\ getShiftValue(id, day) = "closed"

\* C5: on a date whose weekday is the configured clinic day off, a shift edit
\* with any value other than "closed" leaves the schedule store as it was (no
\* entry changed, no date key created) and opens the clinic day off prompt, for
\* full-time and part-time employees alike.
C5_ClosedDayRejected ==
    \A id \in RosterIds, day \in Days, value \in ShiftValues \ {"closed"} :
        LET result == handleShiftChange(id, day, value)
        IN  isClinicDayOffCell(day)
            => /\ result.monthlySchedule = monthlySchedule
               /\ result.modal.isOpen
               /\ result.modal.title = "clinic day off"
               /\ result.modal.message =
                     <<"clinic closed on",
                       dayNames[getDay(currentYear, currentMonth, day) + 1]>>

\* C5 witness: the clinic day off prompt is open over a closed day whose date key
\* is not in the store.
C5_Witness ==
    /\ modal.isOpen
    /\ modal.title = "clinic day off"
    /\ \E day \in Days :
          /\ isClinicDayOffCell(day)
          /\ dateKey(day) \notin DOMAIN monthlySchedule

\* C6: on a day the clinic is open, setting a part-time employee to a
\* non-working value from any viewed branch is accepted (no prompt), stores the
\* bare value in place of whatever was stored, a working assignment of any
\* branch included, and getShiftValue then gives that value in every viewed
\* branch.
C6_NonWorkingOverrides ==
    \A id \in PartTimeIds, day \in Days, value \in NonWorkingValues :
        LET result == handleShiftChange(id, day, value)
        IN  ~isClinicDayOffCell(day)
            => /\ result.modal = modal
               /\ Lookup(result.monthlySchedule, dateKey(day), id) = Str(value)
               /\ \A viewed \in BranchSet :
                     getShiftValueAt(employees, result.monthlySchedule,
                                     clinicDayOff, currentYear, currentMonth,
                                     viewed, id, day) = value

\* C6 witness: a part-time employee holds a bare non-working value on an open
\* day and every branch shows it.
C6_Witness ==
    \E id \in PartTimeIds, day \in Days :
        /\ ~isClinicDayOffCell(day)
        /\ StoredEntry(id, day) = Str("sick")
        /\ getShiftValue(id, day) = "sick"
        /\ selectedBranch # initialBranches[1]

\* C7: for a part-time employee whose stored entry on an open day is the working
\* assignment {type, branch: A}, getShiftValue gives type when A is viewed and
\* "" when any other branch is viewed; an attempt to assign a working value from
\* another branch, which is rejected, leaves both results as they were.
C7_AssignmentShownInItsBranch ==
    \A id \in PartTimeIds, day \in Days :
        LET entry == StoredEntry(id, day)
            shown(schedule, viewed) ==
                getShiftValueAt(employees, schedule, clinicDayOff, currentYear,
                                currentMonth, viewed, id, day)
        IN  (~isClinicDayOffCell(day) /\ isWorkingShiftObject(entry))
            => /\ \A viewed \in BranchSet :
                     shown(monthlySchedule, viewed) =
                        IF viewed = entry.branch THEN entry.type ELSE ""
               /\ \A value \in WorkingValues :
                     selectedBranch # entry.branch
                     => \A viewed \in BranchSet :
                           shown(handleShiftChange(id, day, value).monthlySchedule,
                                 viewed) = shown(monthlySchedule, viewed)

\* C7 witness: an attempt from another branch has been rejected; the assignment
\* is shown in its own branch only.
C7_Witness ==
    /\ modal.isOpen
    /\ modal.title = "part-time restriction"
    /\ \E id \in PartTimeIds, day \in Days :
          /\ ~isClinicDayOffCell(day)
          /\ isWorkingShiftObject(StoredEntry(id, day))
          /\ StoredEntry(id, day).branch # selectedBranch
          /\ getShiftValue(id, day) = ""
          /\ StoredEntry(id, day).type = "afternoon"

\* C8 as claimed: no full-time employee has a working assignment stored, and a
\* part-time employee's stored entry is a working assignment exactly when its
\* state is morning or afternoon (never the bare value morning or afternoon).
C8_EntryShapeFollowsType ==
    \A i \in 1..Len(employees), key \in DOMAIN monthlySchedule :
        LET entry == Lookup(monthlySchedule, key, employees[i].id)
        IN  /\ employees[i].type = "full-time" => ~isWorkingShiftObject(entry)
            /\ employees[i].type = "part-time"
               => ~(isString(entry) /\ entry.str \in WorkingValues)

\* C9 as claimed: every full-time employee's branch is one of the branches and
\* every part-time employee's branch is the pool sentinel.
C9_BranchFollowsType ==
    \A i \in 1..Len(employees) :
        /\ employees[i].type = "full-time" => employees[i].branch \in BranchSet
        /\ employees[i].type = "part-time" => employees[i].branch = PartTimePool

\* C10: confirming the delete of employee id X leaves no entry keyed by X at any
\* date and no date with an empty mapping, and keeps every entry of every other
\* id as it was.
C10_DeleteCascades ==
    DeletePending
    => LET X      == modal.onConfirm.id
           result == confirmDelete(modal.onConfirm).monthlySchedule
       IN  /\ \A key \in DOMAIN result :
                 /\ X \notin DOMAIN result[key]
                 /\ DOMAIN result[key] # {}
           /\ DOMAIN result \subseteq DOMAIN monthlySchedule
           /\ \A key \in DOMAIN monthlySchedule :
                 \A id \in DOMAIN monthlySchedule[key] \ {X} :
                    Lookup(result, key, id) = monthlySchedule[key][id]

\* C10 witness: a delete has been confirmed (an employee numbered 2 heads the
\* roster only once the employee added before it is gone) and the entry of the
\* employee that is left is still stored.
C10_Witness ==
    /\ ~modal.isOpen
    /\ Len(employees) = 1
    /\ employees[1].id \in {"emp2", "pte2"}
    /\ \E key \in DOMAIN monthlySchedule :
          DOMAIN monthlySchedule[key] = {employees[1].id}

\* C11: a delete request changes neither the roster nor the schedule store;
\* while the delete prompt is open both stay as they were when it was opened
\* (the roster is the one the request saw), so that cancelling leaves them as
\* they were before the request; an employee leaves the roster, or an entry
\* leaves the store, only in the step that confirms the delete prompt.
C11_DeleteOnlyOnConfirm ==
    [][LET employeeRemoved ==
               \E id \in RosterIds :
                  \A i \in 1..Len(employees') : employees'[i].id # id
           entryRemoved ==
               \E key \in DOMAIN monthlySchedule :
                  \E id \in DOMAIN monthlySchedule[key] :
                     Lookup(monthlySchedule', key, id) = Undefined
       IN  /\ DeleteEmployee => UNCHANGED <<employees, monthlySchedule>>
           /\ ModalCancel => UNCHANGED <<employees, monthlySchedule>>
           /\ DeletePending => modal.onConfirm.employees = employees
           /\ (DeletePending /\ ~ModalConfirm)
                 => UNCHANGED <<employees, monthlySchedule>>
           /\ (employeeRemoved \/ entryRemoved)
                 => (DeletePending /\ ModalConfirm)]_vars

\* C11 witness: a delete has been requested for an employee that has an entry
\* in the store; the employee is in the roster and the entry is stored.
C11_Witness ==
    /\ DeletePending
    /\ modal.onConfirm.id \in RosterIds
    /\ \E key \in DOMAIN monthlySchedule :
          modal.onConfirm.id \in DOMAIN monthlySchedule[key]

\* the drafts handleAddEmployee can be called with, whatever the form allows
AnyDrafts ==
    [name : AddNames, position : AddPositions,
     branch : BranchSet \cup {"", PartTimePool}, type : EmployeeTypes]

\* C12: handleAddEmployee with a draft whose name is empty or blank, whose
\* position is empty, or whose type is full-time with an empty branch, leaves
\* the roster as it is and opens the incomplete data prompt (the handler sets
\* the roster and the modal only, so the schedule store is untouched); a
\* part-time draft with a name and a position is accepted with any branch value.
C12_IncompleteDraftRejected ==
    \A d \in AnyDrafts :
        LET result  == handleAddEmployee(d)
            missing == \/ d.name \in {"", " "}
                       \/ d.position = ""
                       \/ (d.type = "full-time" /\ d.branch = "")
        IN  /\ DOMAIN result = {"employees", "modal"}
            /\ missing => /\ result.employees = employees
                          /\ result.modal.isOpen
                          /\ result.modal.title = "incomplete data"
            /\ (d.type = "part-time" /\ d.name = "A" /\ d.position = "P")
                  => /\ result.modal = modal
                     /\ Len(result.employees) = Len(employees) + 1

\* C12 witness: the incomplete data prompt is open over a page that has an
\* employee and a stored entry.
C12_Witness ==
    /\ modal.isOpen
    /\ modal.title = "incomplete data"
    /\ Len(employees) = 1
    /\ EntryCount(monthlySchedule) = 1

\* C13: handleAddEmployee with a complete draft gives the roster with exactly
\* one employee appended at its end, the employees before it and their order
\* as they were; the new id is "emp" (full-time) or "pte" (part-time) followed
\* by one plus the number of employees of the draft's type in the roster before
\* the add, name, position and type are the draft's, and the branch is the pool
\* sentinel for a part-time draft and the draft's branch for a full-time one.
C13_AddAppends ==
    \A d \in AnyDrafts :
        LET result   == handleAddEmployee(d).employees
            complete == /\ d.name = "A"
                        /\ d.position = "P"
                        /\ (d.type = "part-time" \/ d.branch # "")
            ordinal  == 1 + Cardinality({i \in 1..Len(employees) :
                                            employees[i].type = d.type})
        IN  complete
            => /\ Len(result) = Len(employees) + 1
               /\ SubSeq(result, 1, Len(employees)) = employees
               /\ result[Len(result)] =
                     [id |-> (IF d.type = "full-time" THEN "emp" ELSE "pte")
                               \o ToString(ordinal),
                      name |-> d.name, position |-> d.position,
                      branch |-> IF d.type = "part-time" THEN PartTimePool
                                 ELSE d.branch,
                      type |-> d.type]
               /\ handleAddEmployee(d).modal = modal

\* C13 witness: a second employee of a type has been added after the first and
\* carries the ordinal 2.
C13_Witness ==
    /\ Len(employees) = 2
    /\ employees[1].type = employees[2].type
    /\ <<employees[1].id, employees[2].id>> \in {<<"emp1", "emp2">>, <<"pte1", "pte2">>}

\* C14 as claimed: in every state reached by adding and editing employees only,
\* no two employees of the roster have the same id.
C14_IdsUnique ==
    \A i, j \in 1..Len(employees) :
        i # j => employees[i].id # employees[j].id
FullTimeIds == {id \in RosterIds : find(employees, id).type = "full-time"}

\* C15: for every full-time employee, every day the clinic is open and every
\* bare value v, the schedule handleShiftChange gives for v while the employee's
\* home branch is viewed makes getShiftValue give v for the employee and the
\* day in the home branch, and no prompt is opened.
C15_FullTimeRoundTrip ==
    \A id \in FullTimeIds, day \in Days, value \in ShiftValues :
        LET result == handleShiftChange(id, day, value)
        IN  (/\ ~isClinicDayOffCell(day)
             /\ selectedBranch = find(employees, id).branch)
            => /\ result.modal = modal
               /\ getShiftValueAt(employees, result.monthlySchedule,
                                  clinicDayOff, currentYear, currentMonth,
                                  selectedBranch, id, day) = value

\* C15 witness: a full-time employee shown in its home branch on an open day has
\* "leave" stored and shown.
C15_Witness ==
    \E id \in FullTimeIds, day \in Days :
        /\ ~isClinicDayOffCell(day)
        /\ selectedBranch = find(employees, id).branch
        /\ StoredEntry(id, day) = Str("leave")
        /\ getShiftValue(id, day) = "leave"

\* every stored entry of a roster employee has the form of the employee's type:
\* no object for a full-time employee, no bare morning or afternoon for a
\* part-time one
EntriesFollowTypes ==
    \A i \in 1..Len(employees), key \in DOMAIN monthlySchedule :
        LET entry == Lookup(monthlySchedule, key, employees[i].id)
        IN  IF employees[i].type = "full-time"
            THEN ~isWorkingShiftObject(entry)
            ELSE ~(isString(entry) /\ entry.str \in WorkingValues)

\* the roster positions whose getShiftValue is morning or afternoon when the
\* branch is viewed
EffectiveWorking(viewed, day) ==
    {i \in 1..Len(employees) :
        getShiftValueAt(employees, monthlySchedule, clinicDayOff, currentYear,
                        currentMonth, viewed, employees[i].id, day)
          \in WorkingValues}

C17_HeadcountZeroWhenClosed ==
    \A day \in Days, viewed \in BranchSet :
        isClinicDayOffCell(day)
        => getDailyStaffCountAt(employees, monthlySchedule, clinicDayOff,
                                currentYear, currentMonth, viewed, day) = 0

\* C17 witness: the clinic is closed on a day for which a full-time employee of
\* the viewed branch has morning stored and a part-time employee has a working
\* assignment in the viewed branch; the count is 0.
C17_Witness ==
    \E day \in Days :
        /\ isClinicDayOffCell(day)
        /\ getDailyStaffCount(day) = 0
        /\ \E i, j \in 1..Len(employees) :
              /\ employees[i].type = "full-time"
              /\ employees[i].branch = selectedBranch
              /\ StoredEntry(employees[i].id, day) = Str("morning")
              /\ employees[j].type = "part-time"
              /\ StoredEntry(employees[j].id, day)
                    = WorkingShiftObject("afternoon", selectedBranch)

\* C18: for every viewed branch, displayedEmployees is the roster restricted to
\* the part-time employees and the full-time employees whose branch is the
\* viewed one: it has one element for each such roster position, in roster
\* order, and nothing else.
C18_DisplayedEmployees ==
    \A viewed \in BranchSet :
        LET shown == displayedEmployeesAt(employees, viewed)
            kept  == {i \in 1..Len(employees) :
                        \/ employees[i].type = "part-time"
                        \/ employees[i].branch = viewed}
            nth(k) == CHOOSE i \in kept :
                         Cardinality({j \in kept : j < i}) = k - 1
        IN  /\ Len(shown) = Cardinality(kept)
            /\ \A k \in 1..Len(shown) : shown[k] = employees[nth(k)]

\* C18 witness: the roster is a full-time employee of another branch followed by
\* a part-time employee; the viewed branch displays the part-time employee only.
C18_Witness ==
    /\ Len(employees) = 2
    /\ employees[1].type = "full-time"
    /\ employees[1].branch \in BranchSet \ {selectedBranch}
    /\ employees[2].type = "part-time"
    /\ displayedEmployees = <<employees[2]>>

\* C19: the step that saves an edit of the employee of id X leaves the schedule
\* store as it is and gives a roster of the same length in which every
\* employee whose id is not X is as it was, at its position, and the employee
\* of id X stays at its position with the id X, the edited name, position and
\* type, and the pool sentinel as branch when the edited type is part-time,
\* the edited branch otherwise.
C19_EditReplacesFields ==
    [][EditEmployee
       => /\ monthlySchedule' = monthlySchedule
          /\ Len(employees') = Len(employees)
          /\ \E i \in 1..Len(employees) :
                \E edited \in EditedEmployees(employees[i]) :
                   \A j \in 1..Len(employees) :
                      employees'[j] =
                         IF employees[j].id = employees[i].id
                         THEN [id |-> employees[i].id,
                               name |-> edited.name,
                               position |-> edited.position,
                               type |-> edited.type,
                               branch |-> IF edited.type = "part-time"
                                          THEN PartTimePool
                                          ELSE edited.branch]
                         ELSE employees[j]]_vars

\* C19 witness: of two employees the second one has been edited to part-time (it
\* keeps the id of a full-time employee and has the pool sentinel as branch),
\* the first one is a full-time employee with its entry stored.
C19_Witness ==
    /\ Len(employees) = 2
    /\ employees[1] = [id |-> "emp1", name |-> "A", position |-> "P",
                       branch |-> initialBranches[1], type |-> "full-time"]
    /\ employees[2].id = "emp2"
    /\ employees[2].type = "part-time"
    /\ employees[2].branch = PartTimePool
    /\ \E key \in DOMAIN monthlySchedule : "emp1" \in DOMAIN monthlySchedule[key]

\* C20: when the load resolves with at least one document, the roster and the
\* schedule store it gives are those it gives from the empty page for the
\* first document alone, whatever the roster and the store were: the roster is
\* the document's employees (empty when it has none) and every entry of the
\* store is a shift of the document, under the document's date; when it
\* resolves with no document, the roster and the store are as they were.
C20_LoadReplacesWholesale ==
    \A schedules \in QuerySnapshots :
        LET result == loadScheduleFromFirestore(employees, monthlySchedule,
                                                schedules)
        IN  IF Len(schedules) = 0
            THEN /\ result.employees = employees
                 /\ result.monthlySchedule = monthlySchedule
            ELSE LET latest  == schedules[1]
                     entries == IF "schedule" \in DOMAIN latest
                                THEN latest.schedule ELSE <<>>
                 IN  /\ result = loadScheduleFromFirestore(
                                     <<>>, [k \in {} |-> Undefined], <<latest>>)
                     /\ result.employees =
                           IF "employees" \in DOMAIN latest
                           THEN latest.employees ELSE <<>>
                     /\ \A key \in DOMAIN result.monthlySchedule :
                           /\ key = dateOf(latest)
                           /\ \A id \in DOMAIN result.monthlySchedule[key] :
                                 \E k \in 1..Len(entries) :
                                    /\ entries[k][1] = id
                                    /\ \E j \in 1..Len(entries[k][2]) :
                                          entries[k][2][j][2] =
                                             result.monthlySchedule[key][id]

\* C20 witness: the load has resolved and the page holds the roster and the
\* entries of a document.
C20_Witness ==
    /\ ~loadPending
    /\ employees = <<LoadedFullTime, LoadedPartTime>>
    /\ DOMAIN monthlySchedule = {"2025-06-01"}
    /\ DOMAIN monthlySchedule["2025-06-01"] = {"pte1", "emp9"}

\* C21: on a day whose weekday is the clinic day off, for a part-time employee
\* whose stored entry is a working assignment in a branch other than the
\* viewed one, a morning or afternoon edit is rejected with the clinic day off
\* prompt (not the part-time restriction prompt) and the store is left as it
\* was, and the edit to "closed" is accepted without a prompt and stores the
\* bare value "closed".
C21_ClinicDayOffGateFirst ==
    \A id \in PartTimeIds, day \in Days :
        LET entry == StoredEntry(id, day)
        IN  (/\ isClinicDayOffCell(day)
             /\ isWorkingShiftObject(entry)
             /\ entry.branch # selectedBranch)
            => /\ \A value \in WorkingValues :
                     LET result == handleShiftChange(id, day, value)
                     IN  /\ result.modal.isOpen
                         /\ result.modal.title = "clinic day off"
                         /\ result.modal.title # "part-time restriction"
                         /\ result.monthlySchedule = monthlySchedule
               /\ LET result == handleShiftChange(id, day, "closed")
                  IN  /\ result.modal = modal
                      /\ Lookup(result.monthlySchedule, dateKey(day), id)
                            = Str("closed")

\* C21 witness: the clinic day off prompt is open on a closed day for which a
\* part-time employee holds a working assignment in a branch other than the
\* viewed one.
C21_Witness ==
    /\ modal.isOpen
    /\ modal.title = "clinic day off"
    /\ \E id \in PartTimeIds, day \in Days :
          /\ isClinicDayOffCell(day)
          /\ isWorkingShiftObject(StoredEntry(id, day))
          /\ StoredEntry(id, day).branch # selectedBranch

\* C22: for every part-time employee and every day whose weekday is not the
\* clinic day off, getShiftValue is morning or afternoon in at most one viewed
\* branch.
C22_PartTimeWorksInOneBranch ==
    \A id \in PartTimeIds, day \in Days :
        ~isClinicDayOffCell(day)
        => Cardinality({b \in BranchSet :
               getShiftValueAt(employees, monthlySchedule, clinicDayOff,
                               currentYear, currentMonth, b, id, day)
                 \in WorkingValues}) <= 1

\* C23: every full-time employee of the roster is in displayedEmployees of
\* exactly one branch.
C23_FullTimeInOneBranch ==
    \A i \in 1..Len(employees) :
        employees[i].type = "full-time"
        => Cardinality({b \in BranchSet :
               \E k \in 1..Len(displayedEmployeesAt(employees, b)) :
                   displayedEmployeesAt(employees, b)[k] = employees[i]}) = 1

\* the date keys of a schedule store all map to a mapping with an entry
NoEmptyDate(schedule) ==
    \A key \in DOMAIN schedule : DOMAIN schedule[key] # {}

\* C24: in every reachable state, the load included, no date key of the
\* schedule store maps to an empty mapping, and no handler produces one: a
\* shift edit either leaves the store as it was (always when it opens a
\* prompt) or stores an entry under the date key, a confirmed delete leaves no
\* emptied date key, and the load creates a date key only with an entry.
C24_NoEmptyDateKey ==
    /\ NoEmptyDate(monthlySchedule)
    /\ \A id \in RosterIds, day \in Days, value \in ShiftValues :
          LET result == handleShiftChange(id, day, value)
          IN  /\ NoEmptyDate(result.monthlySchedule)
              /\ result.modal # modal
                    => result.monthlySchedule = monthlySchedule
              /\ \/ result.monthlySchedule = monthlySchedule
                 \/ Lookup(result.monthlySchedule, dateKey(day), id) # Undefined
    /\ DeletePending
          => NoEmptyDate(confirmDelete(modal.onConfirm).monthlySchedule)
    /\ \A schedules \in QuerySnapshots :
          NoEmptyDate(loadScheduleFromFirestore(employees, monthlySchedule,
                                                schedules).monthlySchedule)

\* C24 witness: after a delete that left the second added employee alone in
\* the roster, a shift edit was rejected with the clinic day off prompt and
\* the schedule store has no date key.
C24_Witness ==
    /\ Len(employees) = 1
    /\ employees[1].id \in {"emp2", "pte2"}
    /\ modal.isOpen
    /\ modal.title = "clinic day off"
    /\ DOMAIN monthlySchedule = {}

\* C25: for every document the load can receive first, every employee id and
\* every day key of the document's schedule, the store after the load holds
\* the document's shift for the employee under the day key.
C25_LoadKeepsEveryEntry ==
    \A schedules \in QuerySnapshots :
        (Len(schedules) > 0 /\ "schedule" \in DOMAIN schedules[1])
        => LET entries == schedules[1].schedule
               loaded  == loadScheduleFromFirestore(employees, monthlySchedule,
                                                    schedules).monthlySchedule
           IN  \A k \in 1..Len(entries) :
                   \A j \in 1..Len(entries[k][2]) :
                       Lookup(loaded, entries[k][2][j][1], entries[k][1])
                         = entries[k][2][j][2]

\* C26: every employee id that keys an entry of the schedule store is the id
\* of an employee of the roster.
C26_NoOrphanEntries ==
    \A key \in DOMAIN monthlySchedule :
        DOMAIN monthlySchedule[key] \subseteq RosterIds

\* C27: when the startup load has resolved and a delete request is open, the
\* confirmation leaves the roster of that moment without the employees of the
\* deleted id.
C27_ConfirmDeletesFromLoadedRoster ==
    (DeletePending /\ ~loadPending)
    => confirmDelete(modal.onConfirm).employees
         = withoutId(employees, modal.onConfirm.id)

\* C28: a step of the branch selector, of the month buttons or of the day off
\* selector leaves the roster and the schedule store as they were; and after
\* a step of the day off selector, getShiftValue and getDailyStaffCount
\* evaluated with the day off put back to its earlier value give, for every
\* employee, day and viewed branch, what they gave before the step.
C28_SelectionsKeepData ==
    [][/\ (SelectBranch \/ ChangeMonth \/ SelectWeekdayOff)
            => UNCHANGED <<employees, monthlySchedule>>
       /\ SelectWeekdayOff
            => \A day \in Days, viewed \in BranchSet :
                  /\ \A id \in RosterIds :
                        getShiftValueAt(employees', monthlySchedule',
                                        clinicDayOff, currentYear',
                                        currentMonth', viewed, id, day)
                          = getShiftValueAt(employees, monthlySchedule,
                                            clinicDayOff, currentYear,
                                            currentMonth, viewed, id, day)
                  /\ getDailyStaffCountAt(employees', monthlySchedule',
                                          clinicDayOff, currentYear',
                                          currentMonth', viewed, day)
                       = getDailyStaffCountAt(employees, monthlySchedule,
                                              clinicDayOff, currentYear,
                                              currentMonth, viewed, day)
      ]_vars

\* C28 witness: the three selectors have acted after a shift was stored: the
\* second branch is viewed, the second month is displayed, its day 1 is on
\* the clinic day off and a morning or afternoon is stored for it.
C28_Witness ==
    /\ selectedBranch = initialBranches[2]
    /\ MonthIndex(currentYear, currentMonth) = 1
    /\ clinicDayOff = "Tuesday"
    /\ isClinicDayOffCell(1)
    /\ \E id \in RosterIds :
          LET entry == StoredEntry(id, 1)
          IN  \/ isWorkingShiftObject(entry)
              \/ (isString(entry) /\ entry.str \in WorkingValues)

C30_HeadcountMatchesRows ==
    \A day \in Days, viewed \in BranchSet :
        getDailyStaffCountAt(employees, monthlySchedule, clinicDayOff,
                             currentYear, currentMonth, viewed, day)
          = Cardinality({i \in 1..Len(employees) :
               /\ \E k \in 1..Len(displayedEmployeesAt(employees, viewed)) :
                     displayedEmployeesAt(employees, viewed)[k] = employees[i]
               /\ getShiftValueAt(employees, monthlySchedule, clinicDayOff,
                                  currentYear, currentMonth, viewed,
                                  employees[i].id, day) \in WorkingValues})
====
